---- MODULE Spec2Model ----
(***************************************************************************)
(* Replication resources of the Vault Terraform provider: the primary      *)
(* configuration, the secondary configuration and the secondary token,     *)
(* together with the convergence wait on the health endpoint.              *)
(*                                                                         *)
(* One resource instance (one schema.ResourceData, d) is driven by one     *)
(* caller, operation after operation.  The control plane is the            *)
(* environment: every answer of a write, a status read or a health request *)
(* is drawn from a finite set of answers.                                  *)
(***************************************************************************)
EXTENDS Integers, Sequences, FiniteSets, TLC

(***************************************************************************)
(* Bounds of the model.                                                    *)
(***************************************************************************)
\* how many fields of one status answer may be missing or mistyped
MaxMalformed == 1

\* the status-loop variant of waitForReplication has no bound of its own:
\* the log of its requests and its sleep counter stop growing here
MaxPolls == 12

\* how many records the secondaries list of a status answer may hold
MaxSecondaries == 2

(***************************************************************************)
(* Program constants.                                                      *)
(***************************************************************************)
replicationPath == "/sys/replication/"

\* backoff.WithMaxRetries(backoff.NewConstantBackOff(1*time.Second), 10)
maxTries == 10

\* backoff.NewConstantBackOff(1*time.Second), in seconds
Interval == 1

(***************************************************************************)
(* Go interface{} values: a dynamic type and a value.  "absent" is a key   *)
(* that is not in the map; a lookup of it yields the nil interface.        *)
(***************************************************************************)
Absent == [type |-> "absent", val |-> <<>>]
Null == [type |-> "nil", val |-> <<>>]
Number == [type |-> "float64", val |-> <<>>]
Str(s) == [type |-> "string", val |-> s]
List(l) == [type |-> "list", val |-> l]

\* v, ok := m[k]
Has(m, k) == m[k].type # "absent"
\* m[k] != nil
NotNil(m, k) == m[k].type \notin {"absent", "nil"}
\* m[k] == "s" : an interface value equals a string constant
GoEq(v, s) == v.type = "string" /\ v.val = s
\* v.(T) does not panic
Asserts(v, t) == v.type = t

\* an element of a list of records: a map with its node_id entry
Record(nid) == [type |-> "map", node_id |-> nid]

\* schema.TypeSet: d.Set of a list keeps the elements, not their order
ToSet(l) == {l[i] : i \in DOMAIN l}

(***************************************************************************)
(* Paths.                                                                  *)
(***************************************************************************)
replicationPrimaryCreatePath(typeValue) ==
  replicationPath \o typeValue \o "/primary/enable"

replicationPrimaryReadPath(typeValue) ==
  replicationPath \o typeValue \o "/status"

replicationPrimaryDeletePath(typeValue) ==
  replicationPath \o typeValue \o "/primary/disable"

replicationSecondaryCreatePath(typeValue) ==
  replicationPath \o typeValue \o "/secondary/enable"

replicationSecondaryReadPath(typeValue) ==
  replicationPath \o typeValue \o "/status"

replicationSecondaryDeletePath(typeValue) ==
  replicationPath \o typeValue \o "/secondary/disable"

replicationTokenCreatePath(typeValue) ==
  replicationPath \o typeValue \o "/primary/secondary-token"

\* a revoke path built without the separator after the type
replicationTokenDeletePathNoSlash(typeValue) ==
  replicationPath \o typeValue \o "primary/revoke-secondary"

replicationTokenDeletePath(typeValue) ==
  replicationPath \o typeValue \o "/primary/revoke-secondary"

Types == {"dr", "performance"}

(***************************************************************************)
(* Answers of the control plane.                                           *)
(***************************************************************************)
\* client.Logical().Write: (secret, err).  A nil secret with a nil error
\* is the answer to a request whose reply has no body.
WriteData == {[Errors |-> e] : e \in {Absent, Null, Str("boom")}}

\* resp.WrapInfo: a nil pointer, or the wrapping envelope with its token
NoWrap == "<nil>"
WrapInfos == {NoWrap, "wrapped-1"}

Answers(datas, wraps) ==
  {[err |-> TRUE, isNil |-> TRUE, Data |-> [Errors |-> Absent], wrap |-> NoWrap]}
  \cup {[err |-> FALSE, isNil |-> TRUE, Data |-> [Errors |-> Absent], wrap |-> NoWrap]}
  \cup {[err |-> FALSE, isNil |-> FALSE, Data |-> dt, wrap |-> w] :
          dt \in datas, w \in wraps}

WriteAnswers == Answers(WriteData, {NoWrap})

TokenWriteAnswers == Answers(WriteData, WrapInfos)

\* the fields of a status answer and the Go type the projection asserts
PrimaryFields ==
  << <<"primary_cluster_addr", "string">>, <<"cluster_id", "string">>,
     <<"mode", "string">>, <<"state", "string">>,
     <<"known_secondaries", "list">>, <<"secondaries", "list">> >>

ModeValues == {"primary", "secondary", "disabled"}

Malformed(v) == v.type \in {"absent", "nil", "float64"}

StringField(vals) == {Absent, Number} \cup {Str(s) : s \in vals}
ListField(vals) == {Absent, Number} \cup {List(l) : l \in vals}

PrimaryStatusAll ==
  [ Errors : {Absent, Str("boom")},
    primary_cluster_addr : StringField({"10.0.0.1:8201"}),
    cluster_id : StringField({"cid-1"}),
    mode : StringField(ModeValues),
    state : StringField({"running"}),
    known_secondaries : ListField({<<"sec-1">>}),
    secondaries : ListField({<<Record(Str("sec-1"))>>}) ]

MalformedCount(dt, fields) ==
  Cardinality({i \in DOMAIN fields : Malformed(dt[fields[i][1]])})

PrimaryStatusData ==
  {dt \in PrimaryStatusAll : MalformedCount(dt, PrimaryFields) <= MaxMalformed}

SecondaryFields ==
  << <<"primary_cluster_addr", "string">>, <<"cluster_id", "string">>,
     <<"mode", "string">>, <<"state", "string">>,
     <<"known_primary_cluster_addrs", "list">>, <<"primaries", "list">> >>

SecondaryStatusAll ==
  [ Errors : {Absent, Str("boom")},
    primary_cluster_addr : StringField({"10.0.0.1:8201"}),
    cluster_id : StringField({"cid-1"}),
    mode : StringField(ModeValues),
    state : StringField({"running"}),
    known_primary_cluster_addrs : ListField({<<"10.0.0.1:8201">>}),
    primaries : ListField({<<Record(Absent)>>}) ]

SecondaryStatusData ==
  {dt \in SecondaryStatusAll : MalformedCount(dt, SecondaryFields) <= MaxMalformed}

\* the lists of at most n elements of s
RECURSIVE ListsUpTo(_, _)
ListsUpTo(s, n) ==
  IF n = 0 THEN {<<>>}
  ELSE LET shorter == ListsUpTo(s, n - 1)
       IN shorter \cup {Append(l, e) : l \in shorter, e \in s}

\* the elements of a secondaries list: records with a node_id that is a
\* string, a number or missing, and an element that is not a record
SecondaryElems ==
  {Record(nid) : nid \in {Str("sec-1"), Str("sec-2"), Number, Absent}}
  \cup {[type |-> "string", node_id |-> Absent]}

\* what replicationTokenExists looks at in a status answer
TokenStatusData ==
  [ Errors : {Absent, Str("boom")},
    mode : {Str("primary")},
    secondaries : {Absent, Null, Number}
                  \cup {List(l) : l \in ListsUpTo(SecondaryElems, MaxSecondaries)} ]

\* what the status-loop variant of waitForReplication looks at
LoopStatusData ==
  [ Errors : {Absent},
    primary_cluster_addr : {Str("10.0.0.1:8201")},
    cluster_id : {Str("cid-1")},
    mode : {Str("primary")},
    state : {Absent, Number, Str("running"), Str("idle")},
    known_secondaries : {List(<<"sec-1">>)},
    secondaries : {List(<<Record(Str("sec-1"))>>)} ]

\* client.Logical().Read of the status path: an error comes with a nil
\* secret; a nil secret without error is the answer to a reply with no body
PrimaryReadAnswers == Answers(PrimaryStatusData, {NoWrap})

SecondaryReadAnswers == Answers(SecondaryStatusData, {NoWrap})

TokenReadAnswers == Answers(TokenStatusData, {NoWrap})

LoopReadAnswers == Answers(LoopStatusData, {NoWrap})

NoAnswer == [err |-> FALSE, isNil |-> TRUE, Data |-> [Errors |-> Absent], wrap |-> "<none>"]

\* GET /v1/sys/health: a transport error, a body that cannot be read, a body
\* that is not JSON, or a JSON object
HealthModes == {Absent, Number} \cup {Str(s) : s \in ModeValues}

\* the field of the replication type that is not asked about
OtherModes == {Absent, Str("primary"), Str("disabled")}

HealthAnswers ==
  {[err |-> e, dr |-> Absent, performance |-> Absent] :
      e \in {"transport", "readall", "unmarshal"}}
  \cup {[err |-> "none", dr |-> a, performance |-> b] :
      a \in HealthModes, b \in OtherModes}
  \cup {[err |-> "none", dr |-> b, performance |-> a] :
      a \in HealthModes, b \in OtherModes}

NoHealth == [err |-> "<none>", dr |-> Absent, performance |-> Absent]

\* data[healthQuery], healthQuery = "replication_<type>_mode"
healthQuery(typeValue) == "replication_" \o typeValue \o "_mode"

HealthField(h, query) ==
  IF query = "replication_dr_mode" THEN h.dr
  ELSE IF query = "replication_performance_mode" THEN h.performance
  ELSE Absent

(***************************************************************************)
(* State.                                                                  *)
(***************************************************************************)
VARIABLES
  kind,      \* which resource d belongs to: "primary", "secondary", "token"
  d,         \* schema.ResourceData: the identifier and the attributes
  op,        \* the operation in progress or last returned
  pc,        \* "idle", "wait", "poll", "read", "done", "panic"
  calls,     \* the requests issued by the operation so far, in order
  resp,      \* the last answer of client.Logical().Write / Read
  health,    \* the last answer of the health endpoint
  target,    \* waitForReplication: the state waited for, after mapping
  numTries,  \* backOffTries.numTries
  slept,     \* seconds slept by the backoff timer in this wait
  waitErr,   \* what waitForReplication returned: "none", "nil", "err"
  ret,       \* what the operation returned: "none", "nil", "err"
  exists,    \* the boolean an Exists operation returned
  suspended  \* a second caller that is not running now: its d and locals

vars == <<kind, d, op, pc, calls, resp, health, target, numTries, slept,
          waitErr, ret, exists, suspended>>

PrimaryData(t, addr) ==
  [id |-> "", type |-> t, primary_cluster_addr |-> addr, cluster_id |-> "",
   mode |-> "", state |-> "", known_secondaries |-> {}, secondaries |-> {}]

SecondaryData(t, api, file, path) ==
  [id |-> "", type |-> t, token |-> "s.token", primary_api_addr |-> api,
   ca_file |-> file, ca_path |-> path, primary_cluster_addr |-> "",
   cluster_id |-> "", mode |-> "", state |-> "",
   known_primary_cluster_addrs |-> {}, primaries |-> {}]

TokenData(t, ttl, key) ==
  [id |-> "", type |-> t, token_id |-> "sec-1", ttl |-> ttl,
   secondary_public_key |-> key, secondary_token |-> ""]

\* an identifier that is never stored
SetIdDropped(dd, v) == dd

\* d.SetId(v)
SetId(dd, v) == [dd EXCEPT !.id = v]

Call(k, path, data) == [kind |-> k, path |-> path, data |-> data]

Count(k) == Cardinality({i \in DOMAIN calls : calls[i].kind = k})

\* the caller invokes an operation when no operation is running
Callable == pc = "idle"

\* there is one caller only
NoCaller == [pc |-> "none"]


(***************************************************************************)
(* waitForReplication (backoff variant).                                   *)
(***************************************************************************)
\* a wait that compares with the state as it was passed
MapStateIdentity(state) == state

\* if state == "running" { state = "primary" }
MapState(state) == IF state = "running" THEN "primary" ELSE state

\* an attempt that accepts the state in the field of either type
retryReadAnyType(h, typeValue, state) ==
  IF h.err # "none" THEN "err"
  ELSE IF \E val \in {h.dr, h.performance} : Asserts(val, "string") /\ val.val = state
       THEN "nil" ELSE "err"

\* one attempt of retryRead: "nil" when the polled field is a string equal
\* to the state waited for, "err" otherwise
retryRead(h, typeValue, state) ==
  IF h.err # "none" THEN "err"
  ELSE LET val == HealthField(h, healthQuery(typeValue))
       IN IF Asserts(val, "string") /\ val.val = state THEN "nil" ELSE "err"

\* a budget that is spent one retry late
NextBackOffStopsLate(n) == maxTries < n

\* a budget of maxTries attempts, the first one included
NextBackOffStopsEarly(n) == maxTries <= n + 1

\* backOffTries.NextBackOff, the wrapper made by backoff.WithMaxRetries:
\*   if b.maxTries <= b.numTries { return Stop }; b.numTries++
\* It is asked after an attempt failed, so the first attempt is not counted.
NextBackOffStops(n) == maxTries <= n

HealthCall ==
  Call("health", "/v1/sys/health", {<<"standbyok", "true">>, <<"perfstandbyok", "true">>})

\* where the caller of waitForReplication goes on; the value the wait
\* returned is dropped by both callers
AfterWait(o, w) ==
  IF o = "replicationPrimaryCreate"
  THEN [pc |-> "read", ret |-> "none"]
  ELSE [pc |-> "done", ret |-> "nil"]

\* One round of backoff.RetryNotify:
\*   for { err = operation(); if err == nil { return nil }
\*         if next = b.NextBackOff(); next == Stop { return err }
\*         notify(err, next); sleep(next) }
\* provider.GetClient is asked again at the head of waitForReplication; it
\* answers as it did at the head of the calling operation, for the same d
\* and meta.
waitForReplication ==
  /\ pc = "wait"
  /\ \E h \in HealthAnswers :
       LET res == retryRead(h, d.type, target)
           over == res = "nil" \/ NextBackOffStops(numTries)
           w == IF res = "nil" THEN "nil" ELSE "err"
       IN /\ calls' = Append(calls, HealthCall)
          /\ health' = h
          /\ IF over
             THEN /\ waitErr' = w
                  /\ pc' = AfterWait(op, w).pc
                  /\ ret' = AfterWait(op, w).ret
                  /\ UNCHANGED <<numTries, slept>>
             ELSE /\ numTries' = numTries + 1
                  /\ slept' = slept + Interval
                  /\ UNCHANGED <<waitErr, pc, ret>>
  /\ UNCHANGED <<kind, suspended, d, op, resp, target, exists>>

(***************************************************************************)
(* replicationPrimaryRead: the projection of a status answer onto d.       *)
(***************************************************************************)
\* the d.Set calls in order; a failed type assertion panics and leaves the
\* attributes set before it
RECURSIVE SetFields(_, _, _, _)
SetFields(dd, dt, fields, i) ==
  IF i > Len(fields) THEN [d |-> dd, out |-> "nil"]
  ELSE LET k == fields[i][1]
           t == fields[i][2]
       IN IF ~Asserts(dt[k], t) THEN [d |-> dd, out |-> "panic"]
          ELSE SetFields(
                 [dd EXCEPT ![k] = IF t = "list" THEN ToSet(dt[k].val) ELSE dt[k].val],
                 dt, fields, i + 1)

\* a purge on every mode but "primary"
PurgeIfNotPrimary(dd, dt) ==
  IF ~GoEq(dt["mode"], "primary") THEN SetId(dd, "") ELSE dd

\* if resp.Data["mode"] == "disabled" { d.SetId("") }
PurgeIfDisabled(dd, dt) ==
  IF GoEq(dt["mode"], "disabled") THEN SetId(dd, "") ELSE dd

\* a read that removes the record when the status read failed
PrimaryProjectPurgesOnError(dd, r) ==
  IF r.err THEN [d |-> SetId(dd, ""), out |-> "err"]
  ELSE IF r.isNil THEN [d |-> dd, out |-> "panic"]
  ELSE SetFields(PurgeIfDisabled(dd, r.Data), r.Data, PrimaryFields, 1)

\* a projection that forgets d.Set("mode", ...)
PrimaryProjectKeepsMode(dd, r) ==
  IF r.err THEN [d |-> dd, out |-> "err"]
  ELSE IF r.isNil THEN [d |-> dd, out |-> "panic"]
  ELSE LET p == SetFields(PurgeIfDisabled(dd, r.Data), r.Data, PrimaryFields, 1)
       IN [d |-> [p.d EXCEPT !.mode = dd.mode], out |-> p.out]

\* the body of replicationPrimaryRead after the status read answered r
PrimaryProject(dd, r) ==
  IF r.err THEN [d |-> dd, out |-> "err"]
  ELSE IF r.isNil THEN [d |-> dd, out |-> "panic"]
  ELSE SetFields(PurgeIfDisabled(dd, r.Data), r.Data, PrimaryFields, 1)

\* every operation starts from these values of its locals
Fresh ==
  /\ health' = NoHealth
  /\ target' = ""
  /\ numTries' = 0
  /\ slept' = 0
  /\ waitErr' = "none"

\* provider.GetClient failed: the operation returns its error at once
NoClient(o) ==
  /\ op' = o
  /\ pc' = "done"
  /\ ret' = "err"
  /\ calls' = <<>>
  /\ resp' = NoAnswer
  /\ exists' = FALSE
  /\ Fresh
  /\ UNCHANGED <<kind, suspended, d>>

\* a status read that is sent again when it failed
FinishRetry(out) ==
  /\ pc' = IF out = "panic" THEN "panic"
           ELSE IF out = "err" /\ pc = "read" THEN "read"
           ELSE "done"
  /\ ret' = IF out = "panic" \/ (out = "err" /\ pc = "read") THEN "none" ELSE out

\* the operation ends: it returns nil or an error, or it panics
Finish(out) ==
  /\ pc' = IF out = "panic" THEN "panic" ELSE "done"
  /\ ret' = IF out = "panic" THEN "none" ELSE out

replicationPrimaryRead ==
  \/ /\ Callable /\ kind = "primary" /\ d.id # ""
     /\ \/ NoClient("replicationPrimaryRead")
        \/ \E r \in PrimaryReadAnswers :
             LET p == PrimaryProject(d, r)
             IN /\ op' = "replicationPrimaryRead"
                /\ calls' = <<Call("read", replicationPrimaryReadPath(d.type), {})>>
                /\ resp' = r
                /\ d' = p.d
                /\ Finish(p.out)
                /\ exists' = FALSE
                /\ Fresh
                /\ UNCHANGED <<kind, suspended>>
  \/ /\ pc = "read" /\ op = "replicationPrimaryCreate"
     /\ \E r \in PrimaryReadAnswers :
          LET p == PrimaryProject(d, r)
          IN /\ calls' = Append(calls, Call("read", replicationPrimaryReadPath(d.type), {}))
             /\ resp' = r
             /\ d' = p.d
             /\ Finish(p.out)
             /\ health' = NoHealth
             /\ numTries' = 0
             /\ slept' = 0
             /\ UNCHANGED <<kind, suspended, op, target, waitErr, exists>>

(***************************************************************************)
(* replicationPrimaryCreate, up to the call of waitForReplication.         *)
(***************************************************************************)
\* a payload that carries the address even when it is empty
PrimaryPayloadAlways(addr) ==
  {<<"primary_cluster_addr", addr>>}

PrimaryPayload(addr) ==
  IF addr # "" THEN {<<"primary_cluster_addr", addr>>} ELSE {}

\* only the transport error of the enable write is looked at
CreateWriteFailsOnErrOnly(w) == w.err

\* the checks on the answer of the enable write
CreateWriteFails(w) ==
  \/ w.err
  \/ ~w.isNil /\ Has(w.Data, "Errors")

replicationPrimaryCreate ==
  /\ Callable /\ kind = "primary" /\ d.id = ""
  /\ \/ NoClient("replicationPrimaryCreate")
     \/ \E w \in WriteAnswers :
          LET path == replicationPrimaryCreatePath(d.type)
          IN /\ op' = "replicationPrimaryCreate"
             /\ calls' = <<Call("write", path, PrimaryPayload(d.primary_cluster_addr))>>
             /\ resp' = w
             /\ exists' = FALSE
             /\ health' = NoHealth
             /\ numTries' = 0
             /\ slept' = 0
             /\ waitErr' = "none"
             /\ IF CreateWriteFails(w)
                THEN /\ pc' = "done" /\ ret' = "err" /\ target' = ""
                     /\ UNCHANGED d
                ELSE /\ d' = SetId(d, path)
                     /\ pc' = "wait" /\ ret' = "none"
                     /\ target' = MapState("running")
             /\ UNCHANGED <<kind, suspended>>

(***************************************************************************)
(* replicationPrimaryDelete, up to the call of waitForReplication.         *)
(***************************************************************************)
\* the checks on the answer of a disable or revoke write: "panic" when the
\* answer is nil, since resp.Data is read without a nil check
DeleteWriteOutcome(w) ==
  IF w.err THEN "err"
  ELSE IF w.isNil THEN "panic"
  ELSE IF NotNil(w.Data, "Errors") THEN "err"
  ELSE "nil"

replicationPrimaryDelete ==
  /\ Callable /\ kind = "primary" /\ d.id # ""
  /\ \/ NoClient("replicationPrimaryDelete")
     \/ \E w \in WriteAnswers :
          LET path == replicationPrimaryDeletePath(d.type)
              out == DeleteWriteOutcome(w)
          IN /\ op' = "replicationPrimaryDelete"
             /\ calls' = <<Call("write", path, {})>>
             /\ resp' = w
             /\ exists' = FALSE
             /\ health' = NoHealth
             /\ numTries' = 0
             /\ slept' = 0
             /\ waitErr' = "none"
             /\ IF out = "nil"
                THEN /\ pc' = "wait" /\ ret' = "none"
                     /\ target' = MapState("disabled")
                ELSE /\ Finish(out) /\ target' = ""
             /\ UNCHANGED <<kind, suspended, d>>

(***************************************************************************)
(* replicationPrimaryExists.                                               *)
(***************************************************************************)
\* <<exists, error or panic>> for the answer r of the status read
ConfigExists(r) ==
  IF r.err THEN [exists |-> TRUE, out |-> "err"]
  ELSE IF r.isNil THEN [exists |-> FALSE, out |-> "panic"]
  ELSE IF NotNil(r.Data, "Errors") THEN [exists |-> TRUE, out |-> "err"]
  ELSE IF ~GoEq(r.Data["mode"], "disabled") THEN [exists |-> TRUE, out |-> "nil"]
  ELSE [exists |-> FALSE, out |-> "nil"]

replicationPrimaryExists ==
  /\ Callable /\ kind = "primary" /\ d.id # ""
  /\ \/ NoClient("replicationPrimaryExists")
     \/ \E r \in PrimaryReadAnswers :
          LET e == ConfigExists(r)
          IN /\ op' = "replicationPrimaryExists"
             /\ calls' = <<Call("read", replicationPrimaryReadPath(d.type), {})>>
             /\ resp' = r
             /\ exists' = e.exists
             /\ Finish(e.out)
             /\ Fresh
             /\ UNCHANGED <<kind, suspended, d>>

(***************************************************************************)
(* The secondary configuration.                                            *)
(***************************************************************************)
\* a payload that leaves out the fields that are not set
SecondaryPayloadOmitsUnset(dd) ==
  {p \in {<<"token", dd.token>>, <<"primary_api_addr", dd.primary_api_addr>>,
          <<"ca_file", dd.ca_file>>, <<"ca_path", dd.ca_path>>} : p[2] # ""}

SecondaryPayload(dd) ==
  {<<"token", dd.token>>, <<"primary_api_addr", dd.primary_api_addr>>,
   <<"ca_file", dd.ca_file>>, <<"ca_path", dd.ca_path>>}

\* the body of replicationSecondaryRead after the status read answered r;
\* both branches of the error check log resp.Data, and resp is nil whenever
\* the read failed
SecondaryProject(dd, r) ==
  IF r.isNil THEN [d |-> dd, out |-> "panic"]
  ELSE IF r.err THEN [d |-> dd, out |-> "err"]
  ELSE SetFields(PurgeIfDisabled(dd, r.Data), r.Data, SecondaryFields, 1)

replicationSecondaryCreate ==
  /\ Callable /\ kind = "secondary" /\ d.id = ""
  /\ \/ NoClient("replicationSecondaryCreate")
     \/ \E w \in WriteAnswers :
          LET path == replicationSecondaryCreatePath(d.type)
          IN /\ op' = "replicationSecondaryCreate"
             /\ calls' = <<Call("write", path, SecondaryPayload(d))>>
             /\ resp' = w
             /\ exists' = FALSE
             /\ Fresh
             /\ IF CreateWriteFails(w)
                THEN /\ pc' = "done" /\ ret' = "err"
                     /\ UNCHANGED d
                ELSE /\ d' = SetId(d, path)
                     /\ pc' = "read" /\ ret' = "none"
             /\ UNCHANGED <<kind, suspended>>

replicationSecondaryRead ==
  \/ /\ Callable /\ kind = "secondary" /\ d.id # ""
     /\ \/ NoClient("replicationSecondaryRead")
        \/ \E r \in SecondaryReadAnswers :
             LET p == SecondaryProject(d, r)
             IN /\ op' = "replicationSecondaryRead"
                /\ calls' = <<Call("read", replicationSecondaryReadPath(d.type), {})>>
                /\ resp' = r
                /\ d' = p.d
                /\ Finish(p.out)
                /\ exists' = FALSE
                /\ Fresh
                /\ UNCHANGED <<kind, suspended>>
  \/ /\ pc = "read" /\ op = "replicationSecondaryCreate"
     /\ \E r \in SecondaryReadAnswers :
          LET p == SecondaryProject(d, r)
          IN /\ calls' = Append(calls, Call("read", replicationSecondaryReadPath(d.type), {}))
             /\ resp' = r
             /\ d' = p.d
             /\ Finish(p.out)
             /\ UNCHANGED <<kind, suspended, op, health, target, numTries, slept, waitErr, exists>>

replicationSecondaryDelete ==
  /\ Callable /\ kind = "secondary" /\ d.id # ""
  /\ \/ NoClient("replicationSecondaryDelete")
     \/ \E w \in WriteAnswers :
          /\ op' = "replicationSecondaryDelete"
          /\ calls' = <<Call("write", replicationSecondaryDeletePath(d.type), {})>>
          /\ resp' = w
          /\ exists' = FALSE
          /\ Fresh
          /\ Finish(DeleteWriteOutcome(w))
          /\ UNCHANGED <<kind, suspended, d>>

replicationSecondaryExists ==
  /\ Callable /\ kind = "secondary" /\ d.id # ""
  /\ \/ NoClient("replicationSecondaryExists")
     \/ \E r \in SecondaryReadAnswers :
          LET e == ConfigExists(r)
          IN /\ op' = "replicationSecondaryExists"
             /\ calls' = <<Call("read", replicationSecondaryReadPath(d.type), {})>>
             /\ resp' = r
             /\ exists' = e.exists
             /\ Finish(e.out)
             /\ Fresh
             /\ UNCHANGED <<kind, suspended, d>>

(***************************************************************************)
(* The secondary token.                                                    *)
(***************************************************************************)
\* d.GetOk: the value is set and is not the zero value
GetOk(v) == v # ""

TokenPayload(dd) ==
  {<<"id", dd.token_id>>}
  \cup (IF GetOk(dd.ttl) THEN {<<"ttl", dd.ttl>>} ELSE {})
  \cup (IF GetOk(dd.secondary_public_key)
        THEN {<<"secondary_public_key", dd.secondary_public_key>>} ELSE {})

\* a create that stores the identifier of the token as its secret
TokenCreateWriteStoresId(dd, w) ==
  IF CreateWriteFails(w) THEN [d |-> dd, out |-> "err"]
  ELSE LET d1 == SetId(dd, dd.token_id)
       IN IF w.isNil \/ w.wrap = NoWrap THEN [d |-> d1, out |-> "panic"]
          ELSE [d |-> [d1 EXCEPT !.secondary_token = dd.token_id], out |-> "nil"]

\* replicationTokenCreate after the write answered w: the identifier is set,
\* then resp.WrapInfo.Token is read without a nil check of resp or WrapInfo
TokenCreateWrite(dd, w) ==
  IF CreateWriteFails(w) THEN [d |-> dd, out |-> "err"]
  ELSE LET d1 == SetId(dd, dd.token_id)
       IN IF w.isNil \/ w.wrap = NoWrap THEN [d |-> d1, out |-> "panic"]
          ELSE [d |-> [d1 EXCEPT !.secondary_token = w.wrap], out |-> "nil"]

\* the body of replicationTokenRead: both branches log resp.Data
TokenReadOutcome(r) ==
  IF r.isNil THEN "panic"
  ELSE IF r.err THEN "err"
  ELSE "nil"

replicationTokenCreate ==
  /\ Callable /\ kind = "token" /\ d.id = ""
  /\ \/ NoClient("replicationTokenCreate")
     \/ \E w \in TokenWriteAnswers :
          LET c == TokenCreateWrite(d, w)
          IN /\ op' = "replicationTokenCreate"
             /\ calls' = <<Call("write", replicationTokenCreatePath(d.type), TokenPayload(d))>>
             /\ resp' = w
             /\ exists' = FALSE
             /\ Fresh
             /\ d' = c.d
             /\ IF c.out = "nil"
                THEN pc' = "read" /\ ret' = "none"
                ELSE Finish(c.out)
             /\ UNCHANGED <<kind, suspended>>

replicationTokenRead ==
  \/ /\ Callable /\ kind = "token" /\ d.id # ""
     /\ \/ NoClient("replicationTokenRead")
        \/ \E r \in TokenReadAnswers :
             /\ op' = "replicationTokenRead"
             /\ calls' = <<Call("read", replicationPrimaryReadPath(d.type), {})>>
             /\ resp' = r
             /\ Finish(TokenReadOutcome(r))
             /\ exists' = FALSE
             /\ Fresh
             /\ UNCHANGED <<kind, suspended, d>>
  \/ /\ pc = "read" /\ op = "replicationTokenCreate"
     /\ \E r \in TokenReadAnswers :
          /\ calls' = Append(calls, Call("read", replicationPrimaryReadPath(d.type), {}))
          /\ resp' = r
          /\ Finish(TokenReadOutcome(r))
          /\ UNCHANGED <<kind, suspended, d, op, health, target, numTries, slept, waitErr, exists>>

replicationTokenDelete ==
  /\ Callable /\ kind = "token" /\ d.id # ""
  /\ \/ NoClient("replicationTokenDelete")
     \/ \E w \in WriteAnswers :
          /\ op' = "replicationTokenDelete"
          /\ calls' = <<Call("write", replicationTokenDeletePath(d.type), {<<"id", d.token_id>>})>>
          /\ resp' = w
          /\ exists' = FALSE
          /\ Fresh
          /\ Finish(DeleteWriteOutcome(w))
          /\ UNCHANGED <<kind, suspended, d>>

\* the scan of the secondaries list: "nil" with found, or "panic" at the
\* first element that is not a record or whose node_id is not a string
RECURSIVE ScanSecondaries(_, _, _)
ScanSecondaries(l, i, id) ==
  IF i > Len(l) THEN [exists |-> FALSE, out |-> "nil"]
  ELSE IF l[i].type # "map" THEN [exists |-> FALSE, out |-> "panic"]
  ELSE IF l[i].node_id.type = "absent" THEN ScanSecondaries(l, i + 1, id)
  ELSE IF l[i].node_id.type # "string" THEN [exists |-> FALSE, out |-> "panic"]
  ELSE IF l[i].node_id.val = id THEN [exists |-> TRUE, out |-> "nil"]
  ELSE ScanSecondaries(l, i + 1, id)

TokenExistsAnySecondary(r, id) ==
  IF r.err THEN [exists |-> TRUE, out |-> "err"]
  ELSE IF r.isNil THEN [exists |-> FALSE, out |-> "panic"]
  ELSE IF NotNil(r.Data, "Errors") THEN [exists |-> TRUE, out |-> "err"]
  ELSE IF NotNil(r.Data, "secondaries")
       THEN IF ~Asserts(r.Data["secondaries"], "list")
            THEN [exists |-> FALSE, out |-> "panic"]
            ELSE [exists |-> Len(r.Data["secondaries"].val) > 0, out |-> "nil"]
  ELSE [exists |-> FALSE, out |-> "nil"]

TokenExists(r, id) ==
  IF r.err THEN [exists |-> TRUE, out |-> "err"]
  ELSE IF r.isNil THEN [exists |-> FALSE, out |-> "panic"]
  ELSE IF NotNil(r.Data, "Errors") THEN [exists |-> TRUE, out |-> "err"]
  ELSE IF NotNil(r.Data, "secondaries")
       THEN IF ~Asserts(r.Data["secondaries"], "list")
            THEN [exists |-> FALSE, out |-> "panic"]
            ELSE ScanSecondaries(r.Data["secondaries"].val, 1, id)
  ELSE [exists |-> FALSE, out |-> "nil"]

replicationTokenExists ==
  /\ Callable /\ kind = "token" /\ d.id # ""
  /\ \/ NoClient("replicationTokenExists")
     \/ \E r \in TokenReadAnswers :
          LET e == TokenExists(r, d.token_id)
          IN /\ op' = "replicationTokenExists"
             /\ calls' = <<Call("read", replicationPrimaryReadPath(d.type), {})>>
             /\ resp' = r
             /\ exists' = e.exists
             /\ Finish(e.out)
             /\ Fresh
             /\ UNCHANGED <<kind, suspended, d>>

(***************************************************************************)
(* The primary configuration of vault/resource_replication_primary_config, *)
(* whose waitForReplication reads the status path in a loop.               *)
(***************************************************************************)
replicationPrimaryCreateLoop ==
  /\ Callable /\ kind = "primary" /\ d.id = ""
  /\ \/ NoClient("replicationPrimaryCreateLoop")
     \/ \E w \in WriteAnswers :
          LET path == replicationPrimaryCreatePath(d.type)
          IN /\ op' = "replicationPrimaryCreateLoop"
             /\ calls' = <<Call("write", path, PrimaryPayload(d.primary_cluster_addr))>>
             /\ resp' = w
             /\ exists' = FALSE
             /\ health' = NoHealth
             /\ numTries' = 0
             /\ slept' = 0
             /\ waitErr' = "none"
             /\ IF CreateWriteFails(w)
                THEN /\ pc' = "done" /\ ret' = "err" /\ target' = ""
                     /\ UNCHANGED d
                ELSE /\ d' = SetId(d, path)
                     /\ pc' = "poll" /\ ret' = "none"
                     /\ target' = "running"
             /\ UNCHANGED <<kind, suspended>>

\* one round of the for loop: "panic" on a nil answer, "break" when the
\* state field equals the state waited for, "sleep" when it is another
\* value, "spin" when the field is missing
LoopRound(r, state) ==
  IF r.isNil THEN "panic"
  ELSE IF Has(r.Data, "state")
       THEN IF GoEq(r.Data["state"], state) THEN "break" ELSE "sleep"
  ELSE "spin"

waitForReplicationLoop ==
  /\ pc = "poll"
  /\ \E r \in LoopReadAnswers :
       LET round == LoopRound(r, target)
       IN /\ calls' = IF Count("poll") < MaxPolls
                      THEN Append(calls, Call("poll", replicationPrimaryReadPath(d.type), {}))
                      ELSE calls
          /\ resp' = r
          /\ pc' = CASE round = "panic" -> "panic"
                    [] round = "break" -> "read"
                    [] OTHER -> "poll"
          /\ waitErr' = IF round = "break" THEN "nil" ELSE waitErr
          /\ slept' = IF round = "sleep" /\ slept < MaxPolls * Interval
                      THEN slept + Interval ELSE slept
  /\ UNCHANGED <<kind, suspended, d, op, health, target, numTries, ret, exists>>

\* the body of this variant's replicationPrimaryRead: both branches of the
\* error check log resp.Data
PrimaryProjectLoop(dd, r) ==
  IF r.isNil THEN [d |-> dd, out |-> "panic"]
  ELSE IF r.err THEN [d |-> dd, out |-> "err"]
  ELSE SetFields(PurgeIfDisabled(dd, r.Data), r.Data, PrimaryFields, 1)

replicationPrimaryReadLoop ==
  \/ /\ Callable /\ kind = "primary" /\ d.id # ""
     /\ \/ NoClient("replicationPrimaryReadLoop")
        \/ \E r \in PrimaryReadAnswers :
             LET p == PrimaryProjectLoop(d, r)
             IN /\ op' = "replicationPrimaryReadLoop"
                /\ calls' = <<Call("read", replicationPrimaryReadPath(d.type), {})>>
                /\ resp' = r
                /\ d' = p.d
                /\ Finish(p.out)
                /\ exists' = FALSE
                /\ Fresh
                /\ UNCHANGED <<kind, suspended>>
  \/ /\ pc = "read" /\ op = "replicationPrimaryCreateLoop"
     /\ \E r \in PrimaryReadAnswers :
          LET p == PrimaryProjectLoop(d, r)
          IN /\ calls' = Append(calls, Call("read", replicationPrimaryReadPath(d.type), {}))
             /\ resp' = r
             /\ d' = p.d
             /\ Finish(p.out)
             /\ slept' = 0
             /\ UNCHANGED <<kind, suspended, op, health, target, numTries, waitErr, exists>>

replicationPrimaryDeleteLoop ==
  /\ Callable /\ kind = "primary" /\ d.id # ""
  /\ \/ NoClient("replicationPrimaryDeleteLoop")
     \/ \E w \in WriteAnswers :
          /\ op' = "replicationPrimaryDeleteLoop"
          /\ calls' = <<Call("write", replicationPrimaryDeletePath(d.type), {})>>
          /\ resp' = w
          /\ exists' = FALSE
          /\ Fresh
          /\ Finish(DeleteWriteOutcome(w))
          /\ UNCHANGED <<kind, suspended, d>>

replicationPrimaryExistsLoop ==
  /\ Callable /\ kind = "primary" /\ d.id # ""
  /\ \/ NoClient("replicationPrimaryExistsLoop")
     \/ \E r \in PrimaryReadAnswers :
          LET e == ConfigExists(r)
          IN /\ op' = "replicationPrimaryExistsLoop"
             /\ calls' = <<Call("read", replicationPrimaryReadPath(d.type), {})>>
             /\ resp' = r
             /\ exists' = e.exists
             /\ Finish(e.out)
             /\ Fresh
             /\ UNCHANGED <<kind, suspended, d>>

(***************************************************************************)
(* The operation hands its result to the caller; its locals are gone.      *)
(***************************************************************************)
Return ==
  /\ pc = "done"
  /\ pc' = "idle"
  /\ op' = "none"
  /\ calls' = <<>>
  /\ resp' = NoAnswer
  /\ ret' = "none"
  /\ exists' = FALSE
  /\ Fresh
  /\ UNCHANGED <<kind, suspended, d>>

(***************************************************************************)
(* Specification.                                                          *)
(***************************************************************************)
Init ==
  /\ \/ /\ kind = "primary"
        /\ \E t \in Types, addr \in {"", "10.0.0.1:8201"} : d = PrimaryData(t, addr)
     \/ /\ kind = "secondary"
        /\ \E t \in Types, api \in {"", "https://primary:8200"},
              ca \in {<<"", "">>, <<"/ca.pem", "">>, <<"", "/ca">>} :
             d = SecondaryData(t, api, ca[1], ca[2])
     \/ /\ kind = "token"
        /\ \E t \in Types, ttl \in {"", "30m"}, key \in {"", "pubkey"} :
             d = TokenData(t, ttl, key)
  /\ op = "none"
  /\ pc = "idle"
  /\ calls = <<>>
  /\ resp = NoAnswer
  /\ health = NoHealth
  /\ target = ""
  /\ numTries = 0
  /\ slept = 0
  /\ waitErr = "none"
  /\ ret = "none"
  /\ exists = FALSE
  /\ suspended = NoCaller

Next ==
  \/ replicationPrimaryCreate
  \/ waitForReplication
  \/ replicationPrimaryRead
  \/ replicationPrimaryDelete
  \/ replicationPrimaryExists
  \/ replicationSecondaryCreate
  \/ replicationSecondaryRead
  \/ replicationSecondaryDelete
  \/ replicationSecondaryExists
  \/ replicationTokenCreate
  \/ replicationTokenRead
  \/ replicationTokenDelete
  \/ replicationTokenExists
  \/ Return

Spec == Init /\ [][Next]_vars

\* A wait in progress goes on: the caller blocks in it and nothing else
\* runs.  Between operations the caller may stop for good.
SpecFair == Spec /\ WF_vars(waitForReplication)

\* The primary configuration with the status loop.
InitLoop == Init /\ kind = "primary"

NextLoop ==
  \/ replicationPrimaryCreateLoop
  \/ waitForReplicationLoop
  \/ replicationPrimaryReadLoop
  \/ replicationPrimaryDeleteLoop
  \/ replicationPrimaryExistsLoop
  \/ Return

SpecLoop == InitLoop /\ [][NextLoop]_vars /\ WF_vars(waitForReplicationLoop)

(***************************************************************************)
(* Two callers run replicationPrimaryCreate at the same time, each on its  *)
(* own d, for the same type and against the same control plane.  One of    *)
(* them runs; the other is suspended with its d and its locals, and the    *)
(* two change places between any two requests.                             *)
(***************************************************************************)
Running ==
  [d |-> d, op |-> op, pc |-> pc, calls |-> calls, resp |-> resp,
   health |-> health, target |-> target, numTries |-> numTries,
   slept |-> slept, waitErr |-> waitErr, ret |-> ret, exists |-> exists]

\* the points of replicationPrimaryCreate that lie after an enable write the
\* control plane accepted: the wait, the status read, and a return or a panic
\* that follows them
EnableAccepted(c) ==
  /\ c.op = "replicationPrimaryCreate"
  /\ \/ c.pc \in {"wait", "read"}
     \/ Len(c.calls) > 1

\* the enable write of the running caller: the control plane accepts it when
\* it has accepted none yet and rejects it otherwise
replicationPrimaryCreateRace ==
  /\ replicationPrimaryCreate
  /\ calls' # <<>>
  /\ CreateWriteFails(resp') <=> EnableAccepted(suspended)

\* the status read that ends replicationPrimaryCreate
replicationPrimaryReadRace ==
  /\ pc = "read"
  /\ replicationPrimaryRead

\* the running caller is suspended and the suspended caller runs
Switch ==
  /\ suspended.pc \in {"idle", "wait", "read"}
  /\ suspended' = Running
  /\ d' = suspended.d
  /\ op' = suspended.op
  /\ pc' = suspended.pc
  /\ calls' = suspended.calls
  /\ resp' = suspended.resp
  /\ health' = suspended.health
  /\ target' = suspended.target
  /\ numTries' = suspended.numTries
  /\ slept' = suspended.slept
  /\ waitErr' = suspended.waitErr
  /\ ret' = suspended.ret
  /\ exists' = suspended.exists
  /\ UNCHANGED kind

InitRace ==
  /\ kind = "primary"
  /\ \E t \in Types, addr \in {"", "10.0.0.1:8201"} : d = PrimaryData(t, addr)
  /\ op = "none"
  /\ pc = "idle"
  /\ calls = <<>>
  /\ resp = NoAnswer
  /\ health = NoHealth
  /\ target = ""
  /\ numTries = 0
  /\ slept = 0
  /\ waitErr = "none"
  /\ ret = "none"
  /\ exists = FALSE
  /\ suspended = Running

NextRace ==
  \/ replicationPrimaryCreateRace
  \/ waitForReplication
  \/ replicationPrimaryReadRace
  \/ Switch

SpecRace == InitRace /\ [][NextRace]_vars


(***************************************************************************)
(* Properties.                                                             *)
(***************************************************************************)
EnablePath == "/sys/replication/" \o d.type \o "/primary/enable"

CreateReturned == op = "replicationPrimaryCreate" /\ pc = "done"

\* the last health answer carries, in the field of the resource's type, the
\* mode the operation waits for: primary after an enable, disabled after a
\* disable
Expected == IF op = "replicationPrimaryCreate" THEN "primary" ELSE "disabled"

Polled == IF d.type = "dr" THEN health.dr ELSE health.performance

Matches ==
  /\ health.err = "none"
  /\ Polled.type = "string"
  /\ Polled.val = Expected

C2_TimeoutSurfaces ==
  (CreateReturned /\ waitErr = "err") => ret = "err"

\* C3: the wait returns success at the first attempt whose polled field is
\* the target mode, and no health request follows that attempt.
C3_StopsAtFirstMatch ==
  /\ [](Matches => (pc # "wait" /\ waitErr = "nil"))
  /\ [][Matches => Count("health")' <= Count("health")]_vars

C3_Witness ==
  /\ Matches
  /\ waitErr = "nil"
  /\ Count("health") = 3

\* C4: every wait ends after a bounded number of attempts, whatever the
\* polled endpoint answers.
C4_WaitTerminates ==
  (pc \in {"wait", "poll"}) ~> (pc \notin {"wait", "poll"})

\* C5: a status read of the primary or the secondary configuration clears
\* the identifier when the mode it observed is "disabled", and leaves the
\* identifier as it was for every other answer.
StatusReadStep ==
  \/ /\ pc = "idle"
     /\ op' \in {"replicationPrimaryRead", "replicationSecondaryRead"}
     /\ calls' # <<>>
  \/ /\ pc = "read"
     /\ op \in {"replicationPrimaryCreate", "replicationSecondaryCreate"}

ObservedDisabled ==
  /\ ~resp.err
  /\ ~resp.isNil
  /\ resp.Data.mode.type = "string"
  /\ resp.Data.mode.val = "disabled"

C5_PurgeIffDisabled ==
  [][StatusReadStep =>
       /\ ObservedDisabled' => d'.id = ""
       /\ ~ObservedDisabled' => d'.id = d.id /\ d.id # ""]_vars

C5_Witness ==
  /\ op = "replicationSecondaryRead"
  /\ pc = "done"
  /\ ObservedDisabled
  /\ d.id = ""
  /\ d.mode = "disabled"

\* C6: when replicationPrimaryCreate returns without error, the identifier
\* is the enable path.
C6_IdIsEnablePath ==
  (CreateReturned /\ ret = "nil") => d.id = EnablePath

\* C7: when replicationPrimaryCreate returns without error, the persisted
\* mode is "primary".
C7_ModeIsPrimary ==
  (CreateReturned /\ ret = "nil") => d.mode = "primary"

\* C8: once the disable write of replicationPrimaryDelete has come back
\* without a transport error and without an Errors field, the wait for
\* disabled runs and the operation returns nil, whether the wait succeeds or
\* runs out of retries.
DisableWriteSucceeded ==
  /\ op = "replicationPrimaryDelete"
  /\ calls # <<>>
  /\ ~resp.err
  /\ resp.isNil \/ resp.Data.Errors.type \in {"absent", "nil"}

C8_DisableReturnsNil ==
  DisableWriteSucceeded =>
    \/ pc = "wait"
    \/ pc = "done" /\ ret = "nil" /\ waitErr \in {"nil", "err"} /\ Count("health") >= 1

\* C9: when the enable write fails with a transport error or its answer
\* carries an Errors field, replicationPrimaryCreate returns an error, d is
\* unchanged, and no health request and no status read is issued.
EnableWriteFailed ==
  /\ pc = "idle"
  /\ op' = "replicationPrimaryCreate"
  /\ calls' # <<>>
  /\ resp'.err \/ (~resp'.isNil /\ resp'.Data.Errors.type # "absent")

C9_FailedEnableChangesNothing ==
  [][EnableWriteFailed =>
       /\ pc' = "done"
       /\ ret' = "err"
       /\ d' = d
       /\ calls' = <<Call("write", EnablePath, calls'[1].data)>>]_vars

C9_Witness ==
  /\ CreateReturned
  /\ ret = "err"
  /\ ~resp.err
  /\ ~resp.isNil
  /\ resp.Data.Errors.type = "string"
  /\ d.id = ""
  /\ Len(calls) = 1

\* C10: outside the convergence wait an operation issues each control-plane
\* write and read at most once; only the health request is repeated.
C10_NoResend ==
  /\ Count("write") <= 1
  /\ Count("read") <= 1
  /\ \A i \in DOMAIN calls : calls[i].kind \in {"write", "read", "health"}

C10_Witness ==
  /\ CreateReturned
  /\ ret = "err"
  /\ resp.err
  /\ Count("write") = 1
  /\ Count("read") = 1
  /\ Count("health") = 11


\* C11: when the status answer read by replicationPrimaryRead or
\* replicationSecondaryRead lacks a projected field, or carries it with the
\* wrong type, the read ends by returning an error; it does not crash.
StatusAnswered ==
  /\ \/ op \in {"replicationPrimaryRead", "replicationSecondaryRead"}
     \/ /\ op \in {"replicationPrimaryCreate", "replicationSecondaryCreate"}
        /\ Count("read") = 1
  /\ pc \in {"done", "panic"}
  /\ ~resp.err
  /\ ~resp.isNil

ProjectedFields == IF kind = "primary" THEN PrimaryFields ELSE SecondaryFields

MalformedAnswer ==
  \E i \in DOMAIN ProjectedFields :
    resp.Data[ProjectedFields[i][1]].type # ProjectedFields[i][2]

C11_MalformedIsError ==
  (StatusAnswered /\ MalformedAnswer) => (pc = "done" /\ ret = "err")

\* C12: replicationTokenExists returns true if and only if the secondaries
\* list of the status answer holds a record whose node_id equals the token_id
\* of the resource; it returns false when secondaries is absent, empty or
\* without such a record.
TokenExistsReturned ==
  /\ op = "replicationTokenExists"
  /\ pc = "done"
  /\ Len(calls) = 1

HasMatch ==
  /\ resp.Data["secondaries"].type = "list"
  /\ \E i \in DOMAIN resp.Data["secondaries"].val :
       LET z == resp.Data["secondaries"].val[i]
       IN /\ z.type = "map"
          /\ z.node_id = [type |-> "string", val |-> d.token_id]

C12_TrueIffMatch ==
  (TokenExistsReturned /\ ~resp.err /\ ~resp.isNil) => (exists <=> HasMatch)

\* C12, amended: a return with a nil error carries true exactly when such a
\* record is in the list; a return with an error (the read failed or the
\* answer has an Errors field) carries true whatever the list holds.
C12_TrueIffMatchOrError ==
  TokenExistsReturned =>
    IF ret = "nil" THEN ~resp.err /\ ~resp.isNil /\ (exists <=> HasMatch)
    ELSE ret = "err" /\ exists /\ (resp.err \/ NotNil(resp.Data, "Errors"))

C12_Witness ==
  /\ TokenExistsReturned /\ ret = "nil" /\ exists
  /\ resp.Data["secondaries"].type = "list"
  /\ Len(resp.Data["secondaries"].val) = 2
  /\ resp.Data["secondaries"].val[1] = Record(Str("sec-2"))

\* C13: secondary_token is assigned once, inside replicationTokenCreate, from
\* the token of the wrapping envelope of the write answer; no later operation
\* (replicationTokenRead, replicationTokenExists, replicationTokenDelete)
\* changes it.
C13_TokenSetOnceInCreate ==
  [][ kind = "token" =>
        /\ d'.secondary_token # d.secondary_token =>
             /\ d.secondary_token = ""
             /\ pc = "idle"
             /\ op' = "replicationTokenCreate"
             /\ ~resp'.isNil
             /\ d'.secondary_token = resp'.wrap
        /\ op' \in {"replicationTokenRead", "replicationTokenExists",
                    "replicationTokenDelete"} =>
             d'.secondary_token = d.secondary_token ]_vars

C13_Witness ==
  /\ kind = "token"
  /\ op = "replicationTokenDelete"
  /\ pc = "done"
  /\ d.secondary_token = "wrapped-1"

\* C14: the payload of the enable write of replicationPrimaryCreate has no
\* primary_cluster_addr key when the configured address is the empty string,
\* and is exactly primary_cluster_addr with the configured value, unchanged,
\* when the address is not empty.
PrimaryEnableWrite ==
  /\ pc = "idle"
  /\ op' = "replicationPrimaryCreate"
  /\ calls' # <<>>

C14_AddrOnlyWhenSet ==
  [][ PrimaryEnableWrite =>
        /\ Len(calls') = 1
        /\ calls'[1].kind = "write"
        /\ IF d.primary_cluster_addr = ""
           THEN calls'[1].data = {}
           ELSE calls'[1].data =
                  {<<"primary_cluster_addr", d.primary_cluster_addr>>} ]_vars

C14_Witness ==
  /\ op = "replicationPrimaryCreate"
  /\ pc = "wait"
  /\ Count("health") = 0
  /\ calls[1].data = {}

\* C15: the payload of the enable write of replicationSecondaryCreate has
\* exactly the four keys token, primary_api_addr, ca_file and ca_path, for
\* every combination of set and unset optional fields; a field that is not
\* set is sent as the empty string.
SecondaryKeys == {"token", "primary_api_addr", "ca_file", "ca_path"}

C15_AlwaysFourKeys ==
  (op = "replicationSecondaryCreate" /\ calls # <<>>) =>
    /\ calls[1].kind = "write"
    /\ {p[1] : p \in calls[1].data} = SecondaryKeys
    /\ Cardinality(calls[1].data) = 4
    /\ \A k \in SecondaryKeys : <<k, d[k]>> \in calls[1].data

C15_Witness ==
  /\ op = "replicationSecondaryCreate"
  /\ calls # <<>>
  /\ d.primary_api_addr = ""
  /\ d.ca_file = ""
  /\ d.ca_path # ""
  /\ <<"ca_file", "">> \in calls[1].data

\* C16: over any sequence of enable, disable and read operations of the
\* primary and secondary resources, the persisted mode never goes from
\* "primary" straight to "secondary", or back, between two successive
\* projections; every such change passes through "disabled".
C16_NoDirectSwitch ==
  [][ (kind # "token" /\ pc' = "done") =>
        /\ ~(d.mode = "primary" /\ d'.mode = "secondary")
        /\ ~(d.mode = "secondary" /\ d'.mode = "primary") ]_vars

\* C16, amended: the persisted mode changes only in the projection of a status
\* answer, and a projection that returns leaves it equal to the mode that the
\* answer reports, whatever the mode persisted before.
C16_ModeFollowsStatus ==
  [][ (kind # "token") =>
        /\ d'.mode # d.mode =>
             /\ StatusReadStep
             /\ ~resp'.err /\ ~resp'.isNil
             /\ resp'.Data.mode.type = "string"
             /\ d'.mode = resp'.Data.mode.val
        /\ (StatusReadStep /\ pc' = "done" /\ ret' = "nil") =>
             d'.mode = resp'.Data.mode.val ]_vars

C16_Witness ==
  /\ kind = "primary"
  /\ op = "replicationPrimaryRead"
  /\ pc = "done" /\ ret = "nil"
  /\ resp.Data.mode.val = "secondary"
  /\ d.mode = "secondary"
  /\ d.id # ""

\* C18: one call of waitForReplication sleeps at most 10 times, 1 second
\* each time, so that it never sleeps more than 10 seconds in all.
C18_AtMostTenSeconds ==
  /\ numTries <= 10
  /\ slept = numTries * 1
  /\ slept <= 10

C18_Witness ==
  /\ op = "replicationPrimaryDelete"
  /\ pc = "done"
  /\ waitErr = "err"
  /\ Count("health") = 11
  /\ slept = 10

\* C19: for each type in {dr, performance} the path functions return exactly
\* "/sys/replication/<type>/" followed by primary/enable, primary/disable,
\* secondary/enable, secondary/disable, status, primary/secondary-token and
\* primary/revoke-secondary; the status path of the primary and the status
\* path of the secondary are the same string.
LiteralPath ==
  [ dr |->
      [ primaryEnable |-> "/sys/replication/dr/primary/enable",
        primaryDisable |-> "/sys/replication/dr/primary/disable",
        secondaryEnable |-> "/sys/replication/dr/secondary/enable",
        secondaryDisable |-> "/sys/replication/dr/secondary/disable",
        status |-> "/sys/replication/dr/status",
        token |-> "/sys/replication/dr/primary/secondary-token",
        revoke |-> "/sys/replication/dr/primary/revoke-secondary" ],
    performance |->
      [ primaryEnable |-> "/sys/replication/performance/primary/enable",
        primaryDisable |-> "/sys/replication/performance/primary/disable",
        secondaryEnable |-> "/sys/replication/performance/secondary/enable",
        secondaryDisable |-> "/sys/replication/performance/secondary/disable",
        status |-> "/sys/replication/performance/status",
        token |-> "/sys/replication/performance/primary/secondary-token",
        revoke |-> "/sys/replication/performance/primary/revoke-secondary" ] ]

\* the endpoint that a write or a read of the running operation is sent to
Endpoint(k) ==
  IF k = "read" THEN "status"
  ELSE IF op = "replicationPrimaryCreate" THEN "primaryEnable"
  ELSE IF op = "replicationPrimaryDelete" THEN "primaryDisable"
  ELSE IF op = "replicationSecondaryCreate" THEN "secondaryEnable"
  ELSE IF op = "replicationSecondaryDelete" THEN "secondaryDisable"
  ELSE IF op = "replicationTokenCreate" THEN "token"
  ELSE "revoke"

C19_PathsAreLiteral ==
  /\ \A i \in DOMAIN calls :
       calls[i].kind \in {"write", "read"} =>
         calls[i].path = LiteralPath[d.type][Endpoint(calls[i].kind)]
  /\ \A t \in {"dr", "performance"} :
       /\ replicationPrimaryReadPath(t) = replicationSecondaryReadPath(t)
       /\ replicationPrimaryCreatePath(t) = LiteralPath[t].primaryEnable
       /\ replicationPrimaryDeletePath(t) = LiteralPath[t].primaryDisable
       /\ replicationPrimaryReadPath(t) = LiteralPath[t].status
       /\ replicationSecondaryCreatePath(t) = LiteralPath[t].secondaryEnable
       /\ replicationSecondaryDeletePath(t) = LiteralPath[t].secondaryDisable
       /\ replicationSecondaryReadPath(t) = LiteralPath[t].status
       /\ replicationTokenCreatePath(t) = LiteralPath[t].token
       /\ replicationTokenDeletePath(t) = LiteralPath[t].revoke

C19_Witness ==
  /\ op = "replicationTokenDelete"
  /\ d.type = "performance"
  /\ calls # <<>>
  /\ calls[1].path = "/sys/replication/performance/primary/revoke-secondary"

\* C20: within one replicationPrimaryCreate that succeeds, the enable write
\* comes first, then the identifier is set, then all health requests of the
\* wait, then exactly one status read; the status read is never sent before
\* the wait has ended.
C20_CreateOrder ==
  (op = "replicationPrimaryCreate" /\ calls # <<>>) =>
    /\ calls[1].kind = "write"
    /\ calls[1].path = EnablePath
    /\ \A i \in 2..Len(calls) :
         \/ calls[i].kind = "health"
         \/ i = Len(calls) /\ calls[i].kind = "read"
    /\ pc \in {"wait", "read"} => (d.id = EnablePath /\ Count("read") = 0)
    /\ pc = "wait" => waitErr = "none"
    /\ Count("read") >= 1 =>
         /\ Count("read") = 1
         /\ Count("health") >= 1
         /\ waitErr # "none"
         /\ pc \in {"done", "panic"}
    /\ (pc = "done" /\ ret = "nil") => Count("read") = 1

C20_Witness ==
  /\ op = "replicationPrimaryCreate"
  /\ pc = "done" /\ ret = "nil"
  /\ Len(calls) = 5
  /\ calls[2].kind = "health"
  /\ calls[4].kind = "health"
  /\ calls[5].kind = "read"

\* C17: two callers run replicationPrimaryCreate at the same time for the same
\* type, and the control plane accepts the first enable write and rejects the
\* second: under every interleaving the caller that lost returns an error with
\* its identifier unset, and exactly one caller ends with its identifier set.
BothReturned == pc = "done" /\ suspended.pc = "done"

Won(c) == c.d.id # ""

Lost(c) == c.d.id = "" /\ c.ret = "err"

C17_ExactlyOneWinner ==
  BothReturned =>
    \/ Won(Running) /\ Lost(suspended)
    \/ Won(suspended) /\ Lost(Running)

\* C21: in waitForReplication a transport error, a body that cannot be parsed,
\* a replication_<type>_mode field that is absent or not a string, and a
\* string other than the target each use up one attempt of one and the same
\* retry budget, so that any mix of them is bounded by that budget; a target
\* of "running" is matched against "primary" in the field of the requested
\* type only.
OtherPolled == IF d.type = "dr" THEN health.performance ELSE health.dr

C21_OneBudget ==
  /\ [](Count("health") <= 11)
  /\ [][ pc = "wait" =>
           /\ Count("health") = numTries
           /\ Count("health")' = Count("health") + 1
           /\ IF Matches'
              THEN pc' # "wait" /\ waitErr' = "nil" /\ numTries' = numTries
              ELSE IF numTries < 10
                   THEN pc' = "wait" /\ numTries' = numTries + 1
                   ELSE pc' # "wait" /\ waitErr' = "err" ]_vars

C21_Witness ==
  /\ op = "replicationPrimaryCreate"
  /\ pc = "read"
  /\ waitErr = "err"
  /\ Count("health") = 11
  /\ health.err = "none"
  /\ Polled = Absent
  /\ OtherPolled = Str("primary")

\* C22: for one and the same status answer, replicationPrimaryExists and
\* replicationSecondaryExists return false exactly when the read of the same
\* resource clears the identifier, which is exactly when the mode of the
\* answer is "disabled"; the two never disagree about the record.
ExistsAnswered ==
  /\ op \in {"replicationPrimaryExists", "replicationSecondaryExists"}
  /\ pc = "done"
  /\ ~resp.err
  /\ ~resp.isNil

ReadAnswered ==
  /\ op \in {"replicationPrimaryRead", "replicationSecondaryRead"}
  /\ pc \in {"done", "panic"}
  /\ ~resp.err
  /\ ~resp.isNil

C22_ExistsAgreesWithRead ==
  /\ ExistsAnswered => (~exists <=> ObservedDisabled)
  /\ ReadAnswered => (d.id = "" <=> ObservedDisabled)

\* C23: when a call of the control plane returns no error and no response (a
\* nil response), every operation of the three resources ends by returning
\* nil or an error; none reads a field of the response that is not there.
NilAnswered ==
  /\ calls # <<>>
  /\ ~resp.err
  /\ resp.isNil

C23_NilNeverDereferenced ==
  NilAnswered => pc # "panic"

\* C24: replicationPrimaryCreate sets the identifier if and only if the enable
\* write succeeded and its answer has no Errors field; when the status read
\* that follows returns an error, replicationPrimaryCreate returns that error,
\* the identifier stays set to the enable path and the attributes stay as
\* they were.
EnableWriteSucceeded ==
  /\ ~resp.err
  /\ resp.isNil \/ resp.Data["Errors"].type = "absent"

CreateReadStep == pc = "read" /\ op = "replicationPrimaryCreate"

C24_IdSetIffWriteSucceeded ==
  /\ [][ PrimaryEnableWrite =>
           /\ EnableWriteSucceeded' => d' = [d EXCEPT !.id = EnablePath]
           /\ ~EnableWriteSucceeded' => (d' = d /\ d.id = "") ]_vars
  /\ [][ (CreateReadStep /\ resp'.err) =>
           /\ pc' = "done"
           /\ ret' = "err"
           /\ d.id = EnablePath
           /\ d' = d ]_vars
  /\ []((op = "replicationPrimaryCreate" /\ pc \in {"wait", "read"}) =>
          d.id = EnablePath)

C24_Witness ==
  /\ op = "replicationPrimaryCreate"
  /\ pc = "done" /\ ret = "err"
  /\ Count("read") = 1
  /\ resp.err
  /\ d.id = EnablePath
  /\ d.mode = "" /\ d.cluster_id = ""

====
